---- MODULE Spec2Model ----
(***************************************************************************)
(* Doxygen2Markdown (package dox_md): a model of the command line run      *)
(* (__main__.py, xml_processor.py, markdown_writer.py) and of the class    *)
(* reader and renderer (class_reader.py, documentation.py, markdown.py).   *)
(*                                                                         *)
(* Python strings that the code inspects character by character (paths,    *)
(* qualified names, section names) are tuples of one-character strings;    *)
(* Str turns such a tuple into the text that is written to a stream.       *)
(* An optional value is None (the empty tuple) or Some(v) (a 1-tuple).     *)
(* A Python object is a function from its attribute names to their values: *)
(* reading an attribute outside its DOMAIN is an AttributeError.           *)
(***************************************************************************)
EXTENDS Integers, Sequences, FiniteSets, TLC

VARIABLES
    pc,             \* position of the run / of the scenario under check
    outputRootKind, \* what ARGUMENTS.output is on disk: "absent", "file", "dir"
    XML_FILES,      \* __main__.XML_FILES: the files under ARGUMENTS.input
    idx,            \* process_xml_files: number of loop iterations started
    writer,         \* the markdown_writer.Writer object (None before it is built)
    opened,         \* the file handles open for writing, as the paths they write
    disk,           \* output files on disk: path |-> the chunks written to it
    parsed,         \* the paths handed to ElementTree.parse, in order
    log,            \* the calls of the logging functions, in order
    exc,            \* the exception that left the last operation, or "none"
    xml,            \* the XML element handed to class_reader
    docs,           \* the object class_reader built from it
    stream          \* the stream of the markdown.File a section is rendered to

vars ==
    <<pc, outputRootKind, XML_FILES, idx, writer, opened, disk, parsed, log, exc,
      xml, docs, stream>>

\* The state of class_reader and of the rendering of one section.
readerVars == <<xml, docs, stream>>

\* ------------------------------------------------------------------ bounds

\* Longest batch of XML files found under the input directory.
MaxFiles == 3

\* Most calls a client makes on one Writer.
MaxCalls == 6

\* Most member groups (sectiondef) in one class record.
MaxSections == 3

\* Most member records (memberdef) in one member group.
MaxMembers == 3

\* ------------------------------------------------------------- Python values

None == << >>
Some(v) == <<v>>
Val(o) == o[1]

NoExc == "none"

\* Op applied to the value of an expression that is evaluated once (TLC
\* evaluates an operator's argument again each time the operator uses it).
Bind(value, Op(_)) == CHOOSE result \in {Op(v) : v \in {value}} : TRUE

HasAttr(obj, a) == a \in DOMAIN obj
SetAttr(obj, a, v) == (a :> v) @@ obj

\* str(t): the text of a tuple of characters.
RECURSIVE Str(_)
Str(t) == IF t = << >> THEN "" ELSE Head(t) \o Str(Tail(t))

\* The back-tick character of the Markdown output. The TLA+ lexer reads a
\* back-tick inside a string as the start of a quotation, so an apostrophe
\* stands for it in the modelled text.
BackTick == "'"

\* '#' * level
RECURSIVE Hashes(_)
Hashes(level) == IF level <= 0 THEN "" ELSE "#" \o Hashes(level - 1)

\* str.rfind(c): index of the last occurrence of character c in s, 0 when
\* there is none.
RFind(s, c) ==
    IF \E i \in DOMAIN s : s[i] = c
    THEN CHOOSE i \in DOMAIN s : s[i] = c /\ \A j \in (i + 1)..Len(s) : s[j] # c
    ELSE 0

startswith(s, prefix) ==
    /\ Len(s) >= Len(prefix)
    /\ SubSeq(s, 1, Len(prefix)) = prefix

\* os.path.basename: what follows the last "/".
basename(p) == SubSeq(p, RFind(p, "/") + 1, Len(p))

\* os.path.splitext: the extension starts at the last "." of the last path
\* component, unless only dots precede it in that component.
splitext(p) ==
    LET sep == RFind(p, "/")
        dot == RFind(p, ".")
    IN  IF dot > sep /\ \E k \in (sep + 1)..(dot - 1) : p[k] # "."
        THEN <<SubSeq(p, 1, dot - 1), SubSeq(p, dot, Len(p))>>
        ELSE <<p, << >> >>

\* os.path.join(a, b) for two components.
join(a, b) ==
    IF b # << >> /\ b[1] = "/" THEN b
    ELSE IF a = << >> \/ a[Len(a)] = "/" THEN a \o b
    ELSE a \o <<"/">> \o b

\* str.replace(old, new) from position i on: non-overlapping occurrences of
\* a non-empty old, from the left.
RECURSIVE ReplaceFrom(_, _, _, _)
ReplaceFrom(s, old, new, i) ==
    IF i > Len(s) THEN << >>
    ELSE IF i + Len(old) - 1 <= Len(s) /\ SubSeq(s, i, i + Len(old) - 1) = old
         THEN new \o ReplaceFrom(s, old, new, i + Len(old))
         ELSE <<s[i]>> \o ReplaceFrom(s, old, new, i + 1)

replace(s, old, new) == IF old = << >> THEN s ELSE ReplaceFrom(s, old, new, 1)

DotMd == <<".", "m", "d">>
ClassPrefix == <<"c", "l", "a", "s", "s">>

\* ------------------------------------------------------------ XML records

\* An xml.etree Element: tag, attributes, text (None or Some(chars)), children.
Element(tag, attrib, text, children) ==
    [tag |-> tag, attrib |-> attrib, text |-> text, children |-> children]

NoAttrib == << >>

\* Element.find(tag): the first direct child with that tag, or None.
RECURSIVE FindIn(_, _)
FindIn(children, tag) ==
    IF children = << >> THEN None
    ELSE IF Head(children).tag = tag THEN Some(Head(children))
    ELSE FindIn(Tail(children), tag)

find(element, tag) == FindIn(element.children, tag)

\* ------------------------------------------------------------ logging

\* One call of logging.debug, .info or .warning.
LogRecord(level, msg, args) == [level |-> level, msg |-> msg, args |-> args]

\* ------------------------------------------------- markdown_writer.Writer

\* The state the Writer's methods read and write: the Writer object, the open
\* handles, the files on disk, the logging calls made and the exception raised
\* (NoExc when none).
World(w, o, d, lg, e) ==
    [writer |-> w, opened |-> o, disk |-> d, log |-> lg, exc |-> e]

Logged(st, level, msg, args) ==
    [st EXCEPT !.log = Append(st.log, LogRecord(level, msg, args))]

Raise(st, e) == [st EXCEPT !.exc = e]

\* Remove the first occurrence of handle h from the open handles.
RECURSIVE CloseHandle(_, _)
CloseHandle(o, h) ==
    IF o = << >> THEN << >>
    ELSE IF Head(o) = h THEN Tail(o)
    ELSE <<Head(o)>> \o CloseHandle(Tail(o), h)

\* Writer.__init__: returns the new root kind, the Writer and the exception.
Writer__init__Unchecked(output_root, rootKind) ==
    LET made == IF rootKind = "absent" THEN "dir" ELSE rootKind
    IN  [rootKind |-> made,
         exc |-> NoExc,
         writer |-> [output_root |-> output_root,
                     output_file |-> None,
                     file |-> None]]

Writer__init__(output_root, rootKind) ==
    LET made == IF rootKind = "absent" THEN "dir" ELSE rootKind
    IN  IF made # "dir"
        THEN [rootKind |-> made, exc |-> "FileExistsError", writer |-> None]
        ELSE [rootKind |-> made,
              exc |-> NoExc,
              writer |-> [output_root |-> output_root,
                          output_file |-> None,
                          file |-> None]]

\* open(path, mode="w"): a new handle on a created or truncated file.
OpenForWriting(st, path) ==
    [st EXCEPT !.writer.file = Some(path),
               !.opened = Append(st.opened, path),
               !.disk = (path :> << >>) @@ st.disk]

Writer__enter__NoGuard(st) ==
    LET s1 == Logged(st, "DEBUG", "Starting writer", << >>)
    IN  IF s1.writer.output_file = None THEN Raise(s1, "TypeError")
        ELSE OpenForWriting(s1, Val(s1.writer.output_file))

Writer__enter__(st) ==
    LET s1 == Logged(st, "DEBUG", "Starting writer", << >>)
    IN  IF s1.writer.file # None THEN Raise(s1, "RuntimeError")
        ELSE IF s1.writer.output_file = None THEN Raise(s1, "TypeError")
        ELSE OpenForWriting(s1, Val(s1.writer.output_file))

Writer__exit__KeepsHandle(st) ==
    IF st.writer.file = None THEN Raise(st, "AttributeError")
    ELSE IF st.exc # NoExc THEN st
    ELSE Logged([st EXCEPT !.opened = CloseHandle(st.opened, Val(st.writer.file)),
                           !.writer.file = None],
                "DEBUG", "Stopping writer", << >>)

\* Writer.__exit__ returns None, so an exception of the body (st.exc) goes on.
Writer__exit__(st) ==
    IF st.writer.file = None THEN Raise(st, "AttributeError")
    ELSE Logged([st EXCEPT !.opened = CloseHandle(st.opened, Val(st.writer.file)),
                           !.writer.file = None],
                "DEBUG", "Stopping writer", << >>)

\* file.write(text) on the Writer's open handle.
FileWrite(st, text) ==
    LET path == Val(st.writer.file)
    IN  [st EXCEPT !.disk = (path :> Append(st.disk[path], text)) @@ st.disk]

write_heading(st, level, heading) ==
    IF st.writer.file # None
    THEN FileWrite(st, Hashes(level) \o " " \o heading \o "\n\n")
    ELSE st

new_file(st, file_path) ==
    [st EXCEPT !.writer.output_file =
        Some(join(st.writer.output_root, splitext(file_path)[1] \o DotMd))]

\* ------------------------------------- xml_processor.ClassDocumentation

\* The loop over the root container's children: the result of reading them
\* into obj, the warnings logged, and the exception that stopped the loop.
RECURSIVE XpReadTags(_, _, _, _)
XpReadTags(children, obj, lg, file_path) ==
    IF children = << >> THEN [obj |-> obj, log |-> lg, exc |-> NoExc]
    ELSE LET tag == Head(children)
         IN  IF tag.tag = "compoundname"
             THEN IF tag.text = None
                  THEN [obj |-> obj, log |-> lg, exc |-> "MissingValue"]
                  ELSE XpReadTags(Tail(children),
                                  SetAttr(obj, "name", Val(tag.text)),
                                  lg, file_path)
             ELSE XpReadTags(Tail(children), obj,
                             Append(lg, LogRecord("WARNING", "Skipping <%s> in %s",
                                                  <<tag.tag, file_path>>)),
                             file_path)

\* xml_processor.ClassDocumentation(file_path) on the parsed document tree.
XpClassDocumentation(file_path, tree, lg) ==
    LET root == find(tree, "compounddef")
        self == SetAttr(<< >>, "file_path", file_path)
    IN  IF root = None
        THEN [obj |-> self, log |-> lg, exc |-> "MissingTag"]
        ELSE XpReadTags(Val(root).children, self, lg, file_path)

\* ----------------------------------------------------- the input directory

CompoundName(text) == Element("compoundname", NoAttrib, text, << >>)
Doxygen(children) == Element("doxygen", NoAttrib, None, children)
CompoundDef(children) ==
    Element("compounddef", [kind |-> "class", language |-> "C++"], None, children)

Path_classA == <<"x", "/", "c", "l", "a", "s", "s", "A", ".", "x", "m", "l">>
Path_classC == <<"x", "/", "c", "l", "a", "s", "s", "C", ".", "x", "m", "l">>
Path_classNoRoot ==
    <<"x", "/", "c", "l", "a", "s", "s", "N", "o", "R", "o", "o", "t", ".", "x", "m", "l">>
Path_classNoName ==
    <<"x", "/", "c", "l", "a", "s", "s", "N", "o", "N", "a", "m", "e", ".", "x", "m", "l">>
Path_classEmpty ==
    <<"x", "/", "c", "l", "a", "s", "s", "E", "m", "p", "t", "y", ".", "x", "m", "l">>
Path_index == <<"x", "/", "i", "n", "d", "e", "x", ".", "x", "m", "l">>
Path_ns == <<"x", "/", "c", "l", "a", "s", "s", "e", "s", "/", "n", "s", ".", "x", "m", "l">>

Name_aB == <<"a", ":", ":", "B">>
Name_C == <<"C">>

\* The XML files the input directory may hold, and what each holds.
InputPaths ==
    {Path_classA, Path_classC, Path_classNoRoot, Path_classNoName,
     Path_classEmpty, Path_index, Path_ns}

Content(path) ==
    CASE path = Path_classA ->
            Doxygen(<<CompoundDef(<<CompoundName(Some(Name_aB))>>)>>)
      [] path = Path_classC ->
            Doxygen(<<CompoundDef(<<Element("includes", NoAttrib, None, << >>),
                                    CompoundName(Some(Name_C))>>)>>)
      [] path = Path_classNoRoot -> Doxygen(<< >>)
      [] path = Path_classNoName ->
            Doxygen(<<CompoundDef(<<Element("includes", NoAttrib, None, << >>)>>)>>)
      [] path = Path_classEmpty -> Doxygen(<<CompoundDef(<<CompoundName(None)>>)>>)
      [] path = Path_index -> Doxygen(<< >>)
      [] path = Path_ns ->
            Doxygen(<<CompoundDef(<<CompoundName(Some(<<"n", "s">>))>>)>>)

\* ARGUMENTS.output
OutputRoot == <<"o", "u", "t">>

\* glob.glob: any listing, in any order, of distinct files of the directory.
Listings ==
    {s \in UNION {[1..n -> InputPaths] : n \in 0..MaxFiles} :
        \A i, j \in DOMAIN s : i # j => s[i] # s[j]}

\* ------------------------------------------------------------ xml_processor

\* The body of "with new_file(md_writer, file_name) as _:" in _process_xml_file.
ProcessBody(st, class_doc) ==
    IF HasAttr(class_doc, "name")
    THEN write_heading(st, 1, BackTick \o Str(class_doc["name"]) \o BackTick)
    ELSE Raise(st, "AttributeError")

\* with new_file(md_writer, file_name) as _: <body>
\* __exit__ runs when and only when __enter__ returned.
WithNewFile(st, file_name, class_doc) ==
    LET entered == Writer__enter__(new_file(st, file_name))
    IN  IF entered.exc # NoExc THEN entered
        ELSE Writer__exit__(ProcessBody(entered, class_doc))

\* "class" occurs somewhere in the path.
IsClassFileByPath(file_path) == replace(file_path, ClassPrefix, << >>) # file_path

\* file_name.startswith("class")
IsClassFile(file_path) == startswith(basename(file_path), ClassPrefix)

\* _process_xml_file(file_path, md_writer): the world and the parsed files
\* after the call.
ProcessXmlFile(file_path, st, ps) ==
    LET file_name == basename(file_path) IN
    IF IsClassFile(file_path)
    THEN LET s1 == Logged(st, "INFO", "Processing %s", <<file_name>>)
             read == XpClassDocumentation(file_path, Content(file_path), s1.log)
             s2 == [s1 EXCEPT !.log = read.log]
         IN  IF read.exc # NoExc
             THEN [st |-> Raise(s2, read.exc), parsed |-> Append(ps, file_path)]
             ELSE [st |-> WithNewFile(s2, file_name, read.obj),
                   parsed |-> Append(ps, file_path)]
    ELSE [st |-> Logged(st, "WARNING", "Skipping %s", <<file_name>>),
          parsed |-> ps]

\* ---------------------------------------------------------------- __main__

Init ==
    /\ pc = "start"
    /\ outputRootKind \in {"absent", "file", "dir"}
    /\ XML_FILES = << >>
    /\ idx = 0
    /\ writer = None
    /\ opened = << >>
    /\ disk = << >>
    /\ parsed = << >>
    /\ log = << >>
    /\ exc = NoExc
    /\ xml = None
    /\ docs = None
    /\ stream = << >>

\* XML_FILES = xml_processor.find_xml_files(ARGUMENTS.input)
FindXmlFiles ==
    /\ pc = "start"
    /\ \E listing \in Listings : XML_FILES' = listing
    /\ pc' = "found"
    /\ UNCHANGED <<outputRootKind, idx, writer, opened, disk, parsed, log, exc, readerVars>>

\* markdown_writer.Writer(ARGUMENTS.output), the argument of process_xml_files
ConstructWriter ==
    /\ pc = "found"
    /\ \E made \in {Writer__init__(OutputRoot, outputRootKind)} :
           /\ outputRootKind' = made.rootKind
           /\ writer' = made.writer
           /\ exc' = made.exc
           /\ pc' = IF made.exc = NoExc THEN "loop" ELSE "raised"
    /\ UNCHANGED <<XML_FILES, idx, opened, disk, parsed, log, readerVars>>

\* One iteration of the loop of process_xml_files; an exception leaves the loop.
ProcessNext ==
    /\ pc = "loop"
    /\ idx < Len(XML_FILES)
    /\ \E r \in {ProcessXmlFile(XML_FILES[idx + 1],
                                World(writer, opened, disk, log, NoExc), parsed)} :
           /\ writer' = r.st.writer
           /\ opened' = r.st.opened
           /\ disk' = r.st.disk
           /\ exc' = r.st.exc
           /\ log' = r.st.log
           /\ parsed' = r.parsed
           /\ pc' = IF r.st.exc = NoExc THEN "loop" ELSE "raised"
    /\ idx' = idx + 1
    /\ UNCHANGED <<outputRootKind, XML_FILES, readerVars>>

\* The loop of process_xml_files ends and the program with it.
Finish ==
    /\ pc = "loop"
    /\ idx = Len(XML_FILES)
    /\ pc' = "done"
    /\ UNCHANGED <<outputRootKind, XML_FILES, idx, writer, opened, disk, parsed, log, exc,
                   readerVars>>

Next == FindXmlFiles \/ ConstructWriter \/ ProcessNext \/ Finish

Spec == Init /\ [][Next]_vars

\* ------------------------------------------------------- Python strings

Whitespace == {" ", "\n", "\t"}

\* str.strip(): from the first to the last character that is no whitespace.
strip(s) ==
    LET kept == {i \in DOMAIN s : s[i] \notin Whitespace}
    IN  IF kept = {} THEN << >>
        ELSE SubSeq(s,
                    CHOOSE i \in kept : \A j \in kept : i <= j,
                    CHOOSE i \in kept : \A j \in kept : j <= i)

UpperCase ==
    <<"A", "B", "C", "D", "E", "F", "G", "H", "I", "J", "K", "L", "M",
      "N", "O", "P", "Q", "R", "S", "T", "U", "V", "W", "X", "Y", "Z">>
LowerCase ==
    <<"a", "b", "c", "d", "e", "f", "g", "h", "i", "j", "k", "l", "m",
      "n", "o", "p", "q", "r", "s", "t", "u", "v", "w", "x", "y", "z">>

\* ord(c) for the space and the letters.
CodePoint(c) ==
    IF c = " " THEN 32
    ELSE IF \E i \in DOMAIN UpperCase : UpperCase[i] = c
         THEN 64 + (CHOOSE i \in DOMAIN UpperCase : UpperCase[i] = c)
         ELSE 96 + (CHOOSE i \in DOMAIN LowerCase : LowerCase[i] = c)

\* a < b on str: by code point, a proper prefix first.
RECURSIVE StrLt(_, _)
StrLt(a, b) ==
    IF b = << >> THEN FALSE
    ELSE IF a = << >> THEN TRUE
    ELSE IF Head(a) = Head(b) THEN StrLt(Tail(a), Tail(b))
    ELSE CodePoint(Head(a)) < CodePoint(Head(b))

\* ------------------------------------------------------------ class_reader

\* Member, Function and Variable dataclasses.
Function(type, name, brief, arguments) ==
    [cls |-> "Function", type |-> type, name |-> name, brief |-> brief,
     arguments |-> arguments]

Variable(type, name, brief, value) ==
    [cls |-> "Variable", type |-> type, name |-> name, brief |-> brief,
     value |-> value]

\* _find_text(tag, child)
_find_text(tag, child) ==
    LET found == find(tag, child)
    IN  IF found = None THEN << >>
        ELSE IF Val(found).text = None THEN << >>
        ELSE strip(Val(Val(found).text))

\* Section.__read_name: the display name and the warning it logs.
SectionReadName(kind) ==
    CASE kind = "public-func" ->
            [name |-> <<"P", "u", "b", "l", "i", "c", " ", "M", "e", "m", "b", "e", "r", " ",
                        "F", "u", "n", "c", "t", "i", "o", "n", "s">>,
             log |-> LogRecord("WARNING", "Skipping 'public-func' section.", << >>)]
      [] kind = "public-static-attrib" ->
            [name |-> <<"S", "t", "a", "t", "i", "c", " ", "P", "u", "b", "l", "i", "c", " ",
                        "A", "t", "t", "r", "i", "b", "u", "t", "e", "s">>,
             log |-> LogRecord("WARNING", "Skipping 'public-static-attrib' section.", << >>)]
      [] kind = "public-static-func" ->
            [name |-> <<"S", "t", "a", "t", "i", "c", " ", "P", "u", "b", "l", "i", "c", " ",
                        "M", "e", "m", "b", "e", "r", " ",
                        "F", "u", "n", "c", "t", "i", "o", "n", "s">>,
             log |-> LogRecord("WARNING", "Skipping 'public-static-func' section.", << >>)]
      [] OTHER ->
            [name |-> << >>,
             log |-> LogRecord("WARNING", "Unknown <sectiondef> kind of '%s'", <<kind>>)]

\* The loop of Section.__init__ over the children of the sectiondef.
RECURSIVE SectionReadMembers(_, _, _)
SectionReadMembers(children, members, lg) ==
    IF children = << >> THEN [members |-> members, log |-> lg, exc |-> NoExc]
    ELSE LET child == Head(children) IN
         IF ~HasAttr(child.attrib, "kind")
         THEN [members |-> members, log |-> lg, exc |-> "KeyError"]
         ELSE LET kind == child.attrib["kind"]
                  m1 == IF kind = "function"
                        THEN Append(members,
                                    Function(_find_text(child, "type"),
                                             _find_text(child, "name"),
                                             _find_text(child, "briefdescription"),
                                             _find_text(child, "argsstring")))
                        ELSE members
              IN  IF kind = "variable"
                  THEN SectionReadMembers(
                           Tail(children),
                           Append(m1, Variable(_find_text(child, "type"),
                                               _find_text(child, "name"),
                                               _find_text(child, "briefdescription"),
                                               _find_text(child, "initializer"))),
                           lg)
                  ELSE SectionReadMembers(
                           Tail(children), m1,
                           Append(lg, LogRecord("WARNING", "Skipping <%s kind=\"%s\"",
                                                <<child.tag, kind>>)))

\* Section(tag) keeping one member of each name.
SectionDeduplicated(tag, lg) ==
    LET named == SectionReadName(tag.attrib["kind"])
        read == SectionReadMembers(tag.children, << >>, Append(lg, named.log))
        first == {i \in DOMAIN read.members :
                     \A j \in 1..(i - 1) : read.members[j].name # read.members[i].name}
        kept(i) == IF i \in first THEN <<read.members[i]>> ELSE << >>
        RECURSIVE keep(_)
        keep(i) == IF i > Len(read.members) THEN << >> ELSE kept(i) \o keep(i + 1)
    IN  [obj |-> [name |-> named.name, members |-> keep(1)],
         log |-> read.log,
         exc |-> read.exc]

\* Section(tag): the Section object, the log and the exception raised.
Section(tag, lg) ==
    IF ~HasAttr(tag.attrib, "kind")
    THEN [obj |-> << >>, log |-> lg, exc |-> "KeyError"]
    ELSE LET named == SectionReadName(tag.attrib["kind"])
             read == SectionReadMembers(tag.children, << >>, Append(lg, named.log))
         IN  [obj |-> [name |-> named.name, members |-> read.members],
              log |-> read.log,
              exc |-> read.exc]

\* Section.__lt__
Section__lt__Reversed(self, other) == StrLt(other.name, self.name)

Section__lt__(self, other) == StrLt(self.name, other.name)

\* Insert x into a sorted list, after the last element that x is not less than.
InsertSorted(sorted, x) ==
    LET stay == {i \in DOMAIN sorted : ~Section__lt__(x, sorted[i])}
        k == IF stay = {} THEN 0 ELSE CHOOSE i \in stay : \A j \in stay : j <= i
    IN  SubSeq(sorted, 1, k) \o <<x>> \o SubSeq(sorted, k + 1, Len(sorted))

\* list.sort(): stable, by __lt__ alone.
RECURSIVE SortFrom(_, _)
SortFrom(sorted, rest) ==
    IF rest = << >> THEN sorted
    ELSE Bind(InsertSorted(sorted, Head(rest)), LAMBDA s : SortFrom(s, Tail(rest)))

sort(list) == SortFrom(<< >>, list)

\* ClassDocumentation.__get_detailed_description
RECURSIVE JoinParagraphs(_, _)
JoinParagraphs(children, text) ==
    IF children = << >> THEN text
    ELSE LET para_tag == Head(children)
         IN  IF para_tag.tag = "para" /\ para_tag.text # None /\ Val(para_tag.text) # << >>
             THEN JoinParagraphs(Tail(children),
                                 text \o strip(Val(para_tag.text)) \o <<"\n", "\n">>)
             ELSE JoinParagraphs(Tail(children), text)

GetDetailedDescription(xml_tag) == strip(JoinParagraphs(xml_tag.children, << >>))

\* One iteration of the loop of ClassDocumentation.__init__ over the
\* children of the root: the object, the log and the exception raised.
CrReadTag(tag, self, lg) ==
    CASE tag.tag = "briefdescription" ->
            [obj |-> SetAttr(self, "brief",
                             IF tag.text = None THEN None ELSE Some(strip(Val(tag.text)))),
             log |-> lg, exc |-> NoExc]
      [] tag.tag = "compoundname" ->
            IF tag.text = None
            THEN [obj |-> self, log |-> lg, exc |-> "MissingValue"]
            ELSE [obj |-> SetAttr(self, "name", Val(tag.text)), log |-> lg, exc |-> NoExc]
      [] tag.tag = "detaileddescription" ->
            [obj |-> SetAttr(self, "detailed", GetDetailedDescription(tag)),
             log |-> lg, exc |-> NoExc]
      [] tag.tag = "location" ->
            IF ~HasAttr(tag.attrib, "file")
            THEN [obj |-> self, log |-> lg, exc |-> "KeyError"]
            ELSE [obj |-> SetAttr(self, "location",
                                  replace(tag.attrib["file"], self["header_search_path"],
                                          << >>)),
                  log |-> lg, exc |-> NoExc]
      [] tag.tag = "sectiondef" ->
            Bind(Section(tag, lg),
                 LAMBDA made :
                    IF made.exc # NoExc
                    THEN [obj |-> self, log |-> made.log, exc |-> made.exc]
                    ELSE [obj |-> SetAttr(self, "sections",
                                          Append(self["sections"], made.obj)),
                          log |-> made.log, exc |-> NoExc])
      [] OTHER ->
            [obj |-> self,
             log |-> Append(lg, LogRecord("WARNING", "Skipping <%s> in %s",
                                          <<tag.tag, self["file_path"]>>)),
             exc |-> NoExc]

\* The loop of ClassDocumentation.__init__ over the children of the root.
RECURSIVE CrReadTags(_, _, _)
CrReadTags(children, self, lg) ==
    IF children = << >> THEN [obj |-> self, log |-> lg, exc |-> NoExc]
    ELSE Bind(CrReadTag(Head(children), self, lg),
              LAMBDA one :
                 IF one.exc # NoExc THEN one
                 ELSE CrReadTags(Tail(children), one.obj, one.log))

\* root.iter() without the root: every element under it, in document order.
RECURSIVE Descendants(_)
Descendants(children) ==
    IF children = << >> THEN << >>
    ELSE <<Head(children)>> \o Descendants(Head(children).children)
             \o Descendants(Tail(children))

RootDescendants(root) == Descendants(root.children)

\* "for tag in root": the children of the root, in document order.
RootChildren(root) == root.children

\* class_reader.ClassDocumentation(file_path, header_search_path) on the parsed
\* document tree: the object, the log and the exception raised.
ClassDocumentation(file_path, header_search_path, tree, lg) ==
    LET root == find(tree, "compounddef")
        self0 == SetAttr(SetAttr(<< >>, "file_path", file_path),
                         "header_search_path", header_search_path)
    IN  IF root = None THEN [obj |-> self0, log |-> lg, exc |-> "MissingTag"]
        ELSE IF ~HasAttr(Val(root).attrib, "kind") \/ ~HasAttr(Val(root).attrib, "language")
        THEN [obj |-> self0, log |-> lg, exc |-> "KeyError"]
        ELSE Bind(CrReadTags(RootChildren(Val(root)),
                             SetAttr(SetAttr(SetAttr(self0, "kind", Val(root).attrib["kind"]),
                                             "language", Val(root).attrib["language"]),
                                     "sections", << >>),
                             lg),
                  LAMBDA read :
                     IF read.exc # NoExc THEN read
                     ELSE [read EXCEPT !.obj = SetAttr(read.obj, "sections",
                                                       sort(read.obj["sections"]))])

\* ---------------------------------------------------------------- markdown

\* A markdown.File is its stream: the sequence of the texts written to it.

\* File.__write_line
File__write_line(out, line) == Append(out, line \o "\n")

\* File.write_line: line is None or Some(text)
File_write_line(out, line) ==
    IF line = None THEN File__write_line(out, "") ELSE File__write_line(out, Val(line))

File_write_heading(out, level, heading) ==
    File__write_line(out, Hashes(level) \o " " \o heading \o "\n")

File_write_image(out, image_path, alt_text) ==
    File__write_line(out, "![" \o alt_text \o "](" \o image_path \o ")")

Fence == BackTick \o BackTick \o BackTick

CodeBlock__enter__(out, language) == File_write_line(out, Some(Fence \o language))
CodeBlock__exit__(out) == File_write_line(out, Some(Fence \o "\n"))
CodeBlock_write_code(out, code) == File_write_line(out, Some(code))

\* Table.Alignment
Alignment_LEFT == ":--"
Alignment_CENTER == ":-"
Alignment_RIGHT == "--:"

\* '|'.join(columns)
RECURSIVE JoinColumns(_)
JoinColumns(columns) ==
    IF columns = << >> THEN ""
    ELSE IF Len(columns) = 1 THEN columns[1]
    ELSE columns[1] \o "|" \o JoinColumns(Tail(columns))

Table_write_row(out, columns) ==
    File_write_line(out, Some("|" \o JoinColumns(columns) \o "|"))

\* Table.__init__: columns are <<heading, alignment>> pairs.
Table__init__(out, columns) ==
    Table_write_row(
        Table_write_row(out, [i \in DOMAIN columns |-> columns[i][1]]),
        [i \in DOMAIN columns |-> columns[i][2]])

Table__exit__(out) == File_write_line(out, None)

\* ----------------------------------------------------------- documentation

\* What a rendering function leaves: the stream, the log and the exception.
Rendering(out, lg, e) == [out |-> out, log |-> lg, exc |-> e]

_full_md_file_path(root, kind, name) ==
    join(join(root, kind), replace(name, <<":", ":">>, <<".">>) \o DotMd)

_write_badges(out) ==
    File_write_image(
        File_write_image(out, "https://img.shields.io/badge/Language-C%2B%2B-blue",
                         "Language C++"),
        "https://img.shields.io/badge/Kind-Class-blue", "Language C++")

\* The first loop of _combine_brief_section: the distinct non-empty names.
RECURSIVE CombineNames(_, _)
CombineNames(members, names) ==
    IF members = << >> THEN names
    ELSE LET member == Head(members)
         IN  IF member.name # << >> /\ \A k \in DOMAIN names : names[k] # member.name
             THEN CombineNames(Tail(members), Append(names, member.name))
             ELSE CombineNames(Tail(members), names)

\* The inner loop of _combine_brief_section for one name.
RECURSIVE CombineBriefFirstWins(_, _, _)
CombineBriefFirstWins(members, name, t) ==
    IF members = << >> THEN t
    ELSE LET member == Head(members)
         IN  IF name = member.name /\ member.brief # << >> /\ t[2] = << >>
             THEN CombineBriefFirstWins(Tail(members), name, <<name, member.brief>>)
             ELSE CombineBriefFirstWins(Tail(members), name, t)

RECURSIVE CombineBrief(_, _, _)
CombineBrief(members, name, t) ==
    IF members = << >> THEN t
    ELSE LET member == Head(members)
         IN  IF name = member.name /\ member.brief # << >>
             THEN CombineBrief(Tail(members), name, <<name, member.brief>>)
             ELSE CombineBrief(Tail(members), name, t)

\* _combine_brief_section(section): <<name, brief>> pairs.
_combine_brief_section(section) ==
    LET names == CombineNames(section.members, << >>)
    IN  [k \in DOMAIN names |-> CombineBrief(section.members, names[k], <<names[k], << >> >>)]

BriefColumns(first) ==
    <<<<first, Alignment_LEFT>>, <<"Description", Alignment_LEFT>>>>

RECURSIVE WriteFunctionRows(_, _)
WriteFunctionRows(out, combined) ==
    IF combined = << >> THEN out
    ELSE LET member == Head(combined)
         IN  WriteFunctionRows(
                 Table_write_row(out, <<BackTick \o Str(member[1]) \o BackTick,
                                        Str(member[2])>>),
                 Tail(combined))

_write_function_briefs(out, section) ==
    Table__exit__(WriteFunctionRows(Table__init__(out, BriefColumns("Function")),
                                    _combine_brief_section(section)))

\* The rows of _write_variable_briefs; a member without a value attribute
\* raises AttributeError.
RECURSIVE WriteVariableRows(_, _)
WriteVariableRows(out, members) ==
    IF members = << >> THEN Rendering(out, << >>, NoExc)
    ELSE LET member == Head(members)
         IN  IF ~HasAttr(member, "value") THEN Rendering(out, << >>, "AttributeError")
             ELSE WriteVariableRows(
                      Table_write_row(out,
                          <<BackTick \o Str(member.type) \o " " \o Str(member.name) \o " "
                                \o Str(member.value) \o BackTick,
                            Str(member.brief)>>),
                      Tail(members))

\* _write_variable_briefs: Table.__exit__ runs also when a row raised.
_write_variable_briefs(out, members) ==
    LET rows == WriteVariableRows(Table__init__(out, BriefColumns("Attribute")), members)
    IN  Rendering(Table__exit__(rows.out), << >>, rows.exc)

_write_brief_section(out, section) ==
    IF section.members = << >> THEN Rendering(out, << >>, NoExc)
    ELSE LET headed == File_write_heading(out, 2, Str(section.name))
         IN  IF section.members[1].cls = "Function"
             THEN Rendering(_write_function_briefs(headed, section), << >>, NoExc)
             ELSE IF section.members[1].cls = "Variable"
             THEN _write_variable_briefs(headed, section.members)
             ELSE Rendering(headed, << >>, NoExc)

\* The loop of _write_function_details over the members named like one
\* heading. Function and Variable objects have no attribute "parameters",
\* "parameter_details" or "details": reading one raises AttributeError, after
\* which CodeBlock.__exit__ still closes the fence.
RECURSIVE WriteParameterRows(_, _)
WriteParameterRows(out, parameter_details) ==
    IF parameter_details = << >> THEN out
    ELSE WriteParameterRows(
             Table_write_row(out, <<Str(Head(parameter_details).name),
                                    Str(Head(parameter_details).documentation)>>),
             Tail(parameter_details))

WriteMemberDetails(out, m) ==
    LET fenced == CodeBlock__enter__(out, "c++") IN
    IF ~HasAttr(m, "parameters")
    THEN Rendering(CodeBlock__exit__(fenced), << >>, "AttributeError")
    ELSE LET coded == CodeBlock__exit__(
                          CodeBlock_write_code(fenced,
                              Str(m.type) \o " " \o Str(m.name) \o " " \o Str(m["parameters"])))
         IN  IF ~HasAttr(m, "parameter_details")
             THEN Rendering(coded, << >>, "AttributeError")
             ELSE LET tabled ==
                          IF m["parameter_details"] # << >>
                          THEN Table__exit__(
                                   WriteParameterRows(
                                       Table__init__(coded, BriefColumns("Parameter")),
                                       m["parameter_details"]))
                          ELSE coded
                  IN  IF ~HasAttr(m, "details")
                      THEN Rendering(tabled, << >>, "AttributeError")
                      ELSE IF m["details"] # << >>
                      THEN Rendering(File_write_line(tabled, Some(Str(m["details"]))),
                                     << >>, NoExc)
                      ELSE Rendering(tabled, << >>, NoExc)

RECURSIVE WriteOverloads(_, _, _)
WriteOverloads(out, members, name) ==
    IF members = << >> THEN Rendering(out, << >>, NoExc)
    ELSE IF Head(members).name = name
    THEN Bind(WriteMemberDetails(out, Head(members)),
              LAMBDA one :
                 IF one.exc # NoExc THEN one
                 ELSE WriteOverloads(one.out, Tail(members), name))
    ELSE WriteOverloads(out, Tail(members), name)

RECURSIVE WriteFunctionDetails(_, _, _, _)
WriteFunctionDetails(out, combined, section, class_name) ==
    IF combined = << >> THEN Rendering(out, << >>, NoExc)
    ELSE LET member == Head(combined)
             heading == BackTick \o Str(class_name) \o "::" \o Str(member[1]) \o BackTick
         IN  Bind(WriteOverloads(File_write_heading(out, 3, heading),
                                 section.members, member[1]),
                  LAMBDA all :
                     IF all.exc # NoExc THEN all
                     ELSE WriteFunctionDetails(all.out, Tail(combined), section, class_name))

_write_function_details(out, section, class_name) ==
    Bind(_combine_brief_section(section),
         LAMBDA combined : WriteFunctionDetails(out, combined, section, class_name))

_write_detailed_section(out, section, class_name) ==
    IF section.members = << >> THEN Rendering(out, << >>, NoExc)
    ELSE IF section.members[1].cls = "Function"
    THEN _write_function_details(out, section, class_name)
    ELSE Rendering(out,
                   <<LogRecord("WARNING", "Skipping output of %s details section",
                               <<section.members[1].cls>>)>>,
                   NoExc)

\* for section in docs.sections: _write_brief_section(file, section)
RECURSIVE WriteBriefSections(_, _)
WriteBriefSections(r, sections) ==
    IF r.exc # NoExc \/ sections = << >> THEN r
    ELSE Bind(_write_brief_section(r.out, Head(sections)),
              LAMBDA one :
                 WriteBriefSections(Rendering(one.out, r.log \o one.log, one.exc),
                                    Tail(sections)))

\* for section in docs.sections: _write_detailed_section(file, section, docs.name)
RECURSIVE WriteDetailedSections(_, _, _)
WriteDetailedSections(r, sections, class_name) ==
    IF r.exc # NoExc \/ sections = << >> THEN r
    ELSE Bind(_write_detailed_section(r.out, Head(sections), class_name),
              LAMBDA one :
                 WriteDetailedSections(Rendering(one.out, r.log \o one.log, one.exc),
                                       Tail(sections), class_name))

\* The body of write_class from "if docs.detailed:" on.
WriteClassDetails(docs_, tables) ==
    IF tables.exc # NoExc THEN tables
    ELSE IF ~HasAttr(docs_, "detailed")
    THEN Rendering(tables.out, tables.log, "AttributeError")
    ELSE Bind(IF docs_["detailed"] # << >>
              THEN File_write_line(
                       File_write_line(
                           File_write_heading(tables.out, 2, "Detailed Description"),
                           Some(Str(docs_["detailed"]))),
                       None)
              ELSE tables.out,
              LAMBDA detailed :
                 WriteDetailedSections(Rendering(detailed, tables.log, NoExc),
                                       docs_["sections"], docs_["name"]))

\* The body of "with open(filename) as stream:" in write_class.
WriteClassBody(docs_, lg) ==
    LET headed == File_write_line(
                      _write_badges(
                          File_write_heading(<< >>, 1,
                              BackTick \o Str(docs_["name"]) \o BackTick)),
                      None)
        fenced == CodeBlock__enter__(headed, "c++")
    IN  IF ~HasAttr(docs_, "location")
        THEN Rendering(CodeBlock__exit__(fenced), lg, "AttributeError")
        ELSE
        LET included == CodeBlock__exit__(
                            CodeBlock_write_code(fenced,
                                "#include <" \o Str(docs_["location"]) \o ">"))
        IN  IF ~HasAttr(docs_, "brief")
            THEN Rendering(included, lg, "AttributeError")
            ELSE
            LET briefed == IF docs_["brief"] # None /\ Val(docs_["brief"]) # << >>
                           THEN File_write_line(included, Some(Str(Val(docs_["brief"]))))
                           ELSE included
            IN  Bind(WriteBriefSections(Rendering(briefed, lg, NoExc), docs_["sections"]),
                     LAMBDA tables : WriteClassDetails(docs_, tables))

\* Documentation.write_class(docs): the files on disk, the log and the
\* exception afterwards. The stream is closed on every way out of the "with",
\* so what was written before an exception is in the file.
write_class(root_directory, docs_, dsk, lg) ==
    IF ~HasAttr(docs_, "name")
    THEN [disk |-> dsk, log |-> lg, exc |-> "AttributeError"]
    ELSE LET filename == _full_md_file_path(root_directory, <<"c", "l", "a", "s", "s", "e", "s">>,
                                            docs_["name"])
         IN  Bind(WriteClassBody(docs_, lg),
                  LAMBDA body :
                     [disk |-> (filename :> body.out) @@ dsk,
                      log |-> body.log,
                      exc |-> body.exc])

\* ------------------------------------------- clients of the Writer's scope

\* A client program calls new_file and enters and leaves "with" scopes of one
\* Writer in any order the language allows: __exit__ runs for a scope that was
\* entered, a scope may be opened inside another, the body of a scope may
\* write headings and may raise. idx counts the calls made, pc tells whether
\* control is inside a scope that was entered.

ClientFiles == {<<"a", ".", "x", "m", "l">>, <<"b">>}
BodyOutcomes == {NoExc, "AttributeError"}

InitWriter ==
    /\ pc = "outside"
    /\ outputRootKind = "dir"
    /\ XML_FILES = << >>
    /\ idx = 0
    /\ writer = Writer__init__(OutputRoot, "dir").writer
    /\ opened = << >>
    /\ disk = << >>
    /\ parsed = << >>
    /\ log = << >>
    /\ exc = NoExc
    /\ xml = None
    /\ docs = None
    /\ stream = << >>

Install(st) ==
    /\ writer' = st.writer
    /\ opened' = st.opened
    /\ disk' = st.disk
    /\ log' = st.log
    /\ exc' = st.exc

\* new_file(writer, file_path)
ClientNewFile ==
    /\ idx < MaxCalls
    /\ \E file_path \in ClientFiles :
          Install(new_file(World(writer, opened, disk, log, NoExc), file_path))
    /\ idx' = idx + 1
    /\ UNCHANGED <<pc, outputRootKind, XML_FILES, parsed, readerVars>>

\* "with writer:" reaches Writer.__enter__
ClientEnter ==
    /\ idx < MaxCalls
    /\ \E st \in {Writer__enter__(World(writer, opened, disk, log, NoExc))} :
           /\ Install(st)
           /\ pc' = IF st.exc = NoExc THEN "inside" ELSE pc
    /\ idx' = idx + 1
    /\ UNCHANGED <<outputRootKind, XML_FILES, parsed, readerVars>>

\* writer.write_heading(1, "T")
ClientHeading ==
    /\ idx < MaxCalls
    /\ Install(write_heading(World(writer, opened, disk, log, NoExc), 1, "T"))
    /\ idx' = idx + 1
    /\ UNCHANGED <<pc, outputRootKind, XML_FILES, parsed, readerVars>>

\* The scope is left, normally or by an exception of its body: Writer.__exit__
ClientLeave ==
    /\ pc = "inside"
    /\ \E outcome \in BodyOutcomes :
          Install(Writer__exit__(World(writer, opened, disk, log, outcome)))
    /\ pc' = "outside"
    /\ idx' = idx + 1
    /\ UNCHANGED <<outputRootKind, XML_FILES, parsed, readerVars>>

NextWriter == ClientNewFile \/ ClientEnter \/ ClientHeading \/ ClientLeave

SpecWriter == InitWriter /\ [][NextWriter]_vars

\* A step that called Writer.__enter__
EnterStep == log' = Append(log, LogRecord("DEBUG", "Starting writer", << >>))

\* C7: At most one output file is open at any time, and entering the scope
\* while a file is open raises RuntimeError, opens nothing and leaves the open
\* file, the Writer's handle and the disk as they were.
C7_AtMostOneFileOpen ==
    [][/\ Len(opened') <= 1
       /\ (EnterStep /\ writer.file # None) =>
              /\ exc' = "RuntimeError"
              /\ opened' = opened
              /\ writer'.file = writer.file
              /\ disk' = disk]_vars

\* C7 witness: a second entry was refused while a file to which the body has
\* written is open.
C7_Witness ==
    /\ exc = "RuntimeError"
    /\ Len(opened) = 1
    /\ writer.file = Some(opened[1])
    /\ disk[opened[1]] # << >>
    /\ writer.output_file # writer.file

\* ------------------------------------------------- reading a class record

\* Field texts of the records that are read.
Text(chars) == Element("", NoAttrib, Some(chars), << >>)
Field(tag, chars) == Element(tag, NoAttrib, Some(chars), << >>)

\* <memberdef kind=...> with a type, a name (unless empty), a brief description
\* (unless empty) and the field holding the arguments or the initializer.
MemberDef(kind, name, brief) ==
    Element("memberdef", [kind |-> kind], None,
            <<Field("type", <<"i", "n", "t">>)>>
            \o (IF name = << >> THEN << >> ELSE <<Field("name", name)>>)
            \o (IF brief = << >> THEN << >> ELSE <<Field("briefdescription", brief)>>)
            \o (IF kind = "function"
                THEN <<Field("argsstring", <<"(", "i", "n", "t", " ", "x", ")">>)>>
                ELSE <<Field("initializer", <<"=", " ", "1">>)>>))

SectionDef(kind, members) == Element("sectiondef", [kind |-> kind], None, members)

SectionKinds == {"public-func", "public-static-attrib", "public-static-func", "private-attrib"}

\* The member groups of the class records: one member each, or none.
ClassSectionDefs ==
    {SectionDef(kind, <<MemberDef(mk, <<"m">>, <<"A">>)>>) :
        kind \in SectionKinds, mk \in {"function", "variable"}}
    \cup {SectionDef("public-func", << >>)}

SeqsUpTo(S, n) == UNION {[1..k -> S] : k \in 0..n}

NameFields == {<< >>, <<CompoundName(None)>>, <<CompoundName(Some(Name_aB))>>}
BriefDescription == Field("briefdescription", <<" ", "B", "r", "i", "e", "f", ".", " ">>)
DetailedDescription ==
    Element("detaileddescription", NoAttrib, None,
            <<Field("para", <<"L", "o", "n", "g", ".", " ", "T", "e", "x", "t">>),
              Element("para", NoAttrib, None, << >>),
              Field("para", <<" ", "B", " ">>)>>)
Location ==
    Element("location", [file |-> <<"s", "r", "c", "/", "i", "n", "c", "/", "a", ".", "h">>],
            None, << >>)

BriefFields ==
    {<< >>, <<Element("briefdescription", NoAttrib, None, << >>)>>, <<BriefDescription>>}
DetailedFields == {<< >>, <<DetailedDescription>>}
\* Locations whose path holds the header search path twice, and not at its start.
LocationTwice ==
    Element("location", [file |-> <<"s", "r", "c", "/", "s", "r", "c", "/", "a", ".", "h">>],
            None, << >>)
LocationInside ==
    Element("location", [file |-> <<"i", "n", "c", "/", "s", "r", "c", "/", "a", ".", "h">>],
            None, << >>)

LocationFields == {<< >>, <<Location>>, <<LocationTwice>>, <<LocationInside>>}

\* A class record in the order Doxygen writes its fields: the name, the
\* includes, the member groups, the descriptions, the location.
ClassRecord(name, sections, brief, detailed, location) ==
    Doxygen(<<CompoundDef(name \o <<Element("includes", NoAttrib, None, << >>)>>
                          \o sections \o brief \o detailed \o location)>>)

\* An element the reader does not know, holding a member group.
ListOfAllMembers(sectiondef) ==
    Element("listofallmembers", NoAttrib, None, <<sectiondef>>)

\* The records read: every combination of the fields with at most one member
\* group, every sequence of member groups with all the fields, records with
\* a member group inside another element between member groups of the root,
\* and a record without root container.
ClassRecords ==
    {ClassRecord(n, ss, b, d, l) :
        n \in NameFields, ss \in SeqsUpTo(ClassSectionDefs, 1), b \in BriefFields,
        d \in DetailedFields, l \in LocationFields}
    \cup
    {ClassRecord(<<CompoundName(Some(Name_aB))>>, ss, <<BriefDescription>>,
                 <<DetailedDescription>>, <<Location>>) :
        ss \in SeqsUpTo(ClassSectionDefs, MaxSections)}
    \cup
    {ClassRecord(<<CompoundName(Some(Name_aB))>>,
                 before \o <<ListOfAllMembers(inside)>> \o after,
                 <<BriefDescription>>, <<DetailedDescription>>, <<Location>>) :
        before \in SeqsUpTo(ClassSectionDefs, 1), inside \in ClassSectionDefs,
        after \in SeqsUpTo(ClassSectionDefs, 1)}
    \cup {Doxygen(<< >>)}

HeaderSearchPath == <<"s", "r", "c", "/">>

InitClass ==
    /\ pc = "input"
    /\ outputRootKind = "dir"
    /\ XML_FILES = << >>
    /\ idx = 0
    /\ writer = None
    /\ opened = << >>
    /\ disk = << >>
    /\ parsed = << >>
    /\ log = << >>
    /\ exc = NoExc
    /\ xml \in ClassRecords
    /\ docs = None
    /\ stream = << >>

\* docs = class_reader.ClassDocumentation(file_path, header_search_path)
ReadClass ==
    /\ pc = "input"
    /\ \E read \in {ClassDocumentation(Path_classA, HeaderSearchPath, xml, log)} :
           /\ docs' = read.obj
           /\ log' = read.log
           /\ exc' = read.exc
           /\ pc' = IF read.exc = NoExc THEN "read" ELSE "read_raised"
    /\ parsed' = Append(parsed, Path_classA)
    /\ UNCHANGED <<outputRootKind, XML_FILES, idx, writer, opened, disk, xml, stream>>

\* Documentation(root).write_class(docs)
WriteClass ==
    /\ pc = "read"
    /\ \E wrote \in {write_class(OutputRoot, docs, disk, log)} :
           /\ disk' = wrote.disk
           /\ log' = wrote.log
           /\ exc' = wrote.exc
           /\ pc' = IF wrote.exc = NoExc THEN "written" ELSE "write_raised"
    /\ UNCHANGED <<outputRootKind, XML_FILES, idx, writer, opened, parsed, xml, docs, stream>>

NextClass == ReadClass \/ WriteClass

SpecClass == InitClass /\ [][NextClass]_vars

\* ------------------------------------------------ reading a member group

\* The member records of a group: functions and variables with or without a
\* name and a brief text, and a typedef.
SectionMemberDefs ==
    {MemberDef("function", n, b) :
        n \in {<< >>, <<"f">>, <<"g">>}, b \in {<< >>, <<"A">>, <<"B">>}}
    \cup {MemberDef("variable", <<"v">>, b) : b \in {<< >>, <<"A">>}}
    \cup {MemberDef("typedef", <<"t">>, <<"A">>)}

InitSection ==
    /\ pc = "input"
    /\ outputRootKind = "dir"
    /\ XML_FILES = << >>
    /\ idx = 0
    /\ writer = None
    /\ opened = << >>
    /\ disk = << >>
    /\ parsed = << >>
    /\ log = << >>
    /\ exc = NoExc
    /\ xml \in {SectionDef("public-func", ms) : ms \in SeqsUpTo(SectionMemberDefs, MaxMembers)}
    /\ docs = None
    /\ stream = << >>

\* section = class_reader.Section(tag)
ReadSection ==
    /\ pc = "input"
    /\ \E made \in {Section(xml, log)} :
           /\ docs' = made.obj
           /\ log' = made.log
           /\ exc' = made.exc
           /\ pc' = IF made.exc = NoExc THEN "read" ELSE "read_raised"
    /\ UNCHANGED <<outputRootKind, XML_FILES, idx, writer, opened, disk, parsed, xml, stream>>

\* _write_brief_section(file, section) on an empty stream
WriteBriefSection ==
    /\ pc = "read"
    /\ \E wrote \in {_write_brief_section(<< >>, docs)} :
           /\ stream' = wrote.out
           /\ exc' = wrote.exc
           /\ pc' = IF wrote.exc = NoExc THEN "written" ELSE "write_raised"
    /\ UNCHANGED <<outputRootKind, XML_FILES, idx, writer, opened, disk, parsed, log, xml, docs>>

NextSection == ReadSection \/ WriteBriefSection

SpecSection == InitSection /\ [][NextSection]_vars

\* ------------------------------------------------- properties of the run

\* The batch files the loop has gone through so far.
Processed == 1..idx

Terminated == pc \in {"done", "raised"}

ParseErrors == {"MissingTag", "MissingValue"}

\* The base name of a path starts with the five letters c, l, a, s, s.
HasClassPrefix(path) ==
    LET b == basename(path)
    IN  /\ Len(b) >= 5
        /\ <<b[1], b[2], b[3], b[4], b[5]>> = <<"c", "l", "a", "s", "s">>

\* The record of a file: its root container and its qualified-name fields.
RootOf(path) == find(Content(path), "compounddef")
NameFieldsOf(path) ==
    IF RootOf(path) = None THEN << >>
    ELSE SelectSeq(Val(RootOf(path)).children, LAMBDA e : e.tag = "compoundname")

\* A record that has a root container and qualified-name fields that all carry text.
WellFormedRecord(path) ==
    /\ RootOf(path) # None
    /\ NameFieldsOf(path) # << >>
    /\ \A k \in DOMAIN NameFieldsOf(path) : NameFieldsOf(path)[k].text # None

\* The qualified name of a well-formed record.
QualifiedNameOf(path) == Val(NameFieldsOf(path)[Len(NameFieldsOf(path))].text)

\* The level-1 heading of a class is in some output file.
Rendered(path) ==
    \E f \in DOMAIN disk :
        \E k \in DOMAIN disk[f] :
            disk[f][k] = "# " \o BackTick \o Str(QualifiedNameOf(path)) \o BackTick \o "\n\n"

\* C1: Once the run has ended with no other error than a parse error, every
\* class file of the batch whose record is well formed has been read and
\* rendered, whether it comes before or after a file whose read failed with
\* a parse error: a parse error never stops the run.
C1_ParseErrorSkipsOneFile ==
    (Terminated /\ exc \in ParseErrors \cup {NoExc}) =>
        \A i \in DOMAIN XML_FILES :
            (HasClassPrefix(XML_FILES[i]) /\ WellFormedRecord(XML_FILES[i])) =>
                /\ \E k \in DOMAIN parsed : parsed[k] = XML_FILES[i]
                /\ Rendered(XML_FILES[i])

\* C6: Every output file is named after the qualified name of a class record
\* that was processed: each "::" replaced by ".", then ".md", whatever the
\* name of the XML file.
C6_OutputNamedAfterQualifiedName ==
    \A f \in DOMAIN disk :
        \E i \in Processed :
            /\ HasClassPrefix(XML_FILES[i])
            /\ WellFormedRecord(XML_FILES[i])
            /\ basename(f) =
                 replace(QualifiedNameOf(XML_FILES[i]), <<":", ":">>, <<".">>) \o DotMd

\* C8: After every file of the batch, also one whose rendering raised inside
\* the writing scope, no handle is open and the Writer holds no file.
C8_ScopeExitClosesFile ==
    pc \in {"loop", "done", "raised"} =>
        /\ opened = << >>
        /\ (exc # "FileExistsError" => writer.file = None)

\* C8 witness: a file was opened and the rendering inside the scope raised.
C8_Witness ==
    /\ pc = "raised"
    /\ exc = "AttributeError"
    /\ DOMAIN disk # {}
    /\ opened = << >>

\* C9: If the output root is an existing non-directory, the run is aborted by
\* the Writer's constructor with nothing parsed and nothing written; an
\* absent output root has become a directory once the constructor has run,
\* and the constructor fails in no other case.
C9_OutputRootConflictAborts ==
    /\ outputRootKind = "file" =>
          /\ pc \in {"start", "found", "raised"}
          /\ parsed = << >>
          /\ DOMAIN disk = {}
          /\ opened = << >>
    /\ outputRootKind = "absent" => pc \in {"start", "found"}
    /\ (pc = "raised" /\ exc = "FileExistsError") => outputRootKind = "file"

\* C9 witness: the run was aborted on a non-directory root with files to process.
C9_Witness ==
    /\ pc = "raised"
    /\ exc = "FileExistsError"
    /\ outputRootKind = "file"
    /\ Len(XML_FILES) >= 2

\* C10: Only files whose base name starts with "class" are parsed, there are
\* no more output files than such files processed, and every other file
\* processed is logged as skipped and not parsed.
C10_OnlyClassFilesAreRead ==
    /\ \A k \in DOMAIN parsed : HasClassPrefix(parsed[k])
    /\ Cardinality(DOMAIN disk) <= Cardinality({i \in Processed : HasClassPrefix(XML_FILES[i])})
    /\ \A i \in Processed :
          ~HasClassPrefix(XML_FILES[i]) =>
              /\ \A k \in DOMAIN parsed : parsed[k] # XML_FILES[i]
              /\ \E k \in DOMAIN log :
                    /\ log[k].level = "WARNING"
                    /\ log[k].msg = "Skipping %s"
                    /\ log[k].args = <<basename(XML_FILES[i])>>

\* C10 witness: a class file was rendered after two other files were skipped,
\* one of them in a directory whose name starts with "class".
C10_Witness ==
    /\ idx = 3
    /\ XML_FILES[1] = Path_ns
    /\ XML_FILES[2] = Path_index
    /\ HasClassPrefix(XML_FILES[3])
    /\ DOMAIN disk # {}
    /\ parsed = <<XML_FILES[3]>>

\* ------------------------------------- properties of reading a class record

\* The root container of the record read, and its qualified-name fields.
RecordRoot == find(xml, "compounddef")
RecordNames ==
    IF RecordRoot = None THEN << >>
    ELSE SelectSeq(Val(RecordRoot).children, LAMBDA c : c.tag = "compoundname")

\* C2: Reading a record without root container or without qualified-name field
\* raises MissingTag, reading one whose qualified-name field has no text raises
\* MissingValue, and every other read succeeds with that qualified name.
C2_ReadChecksRequiredFields ==
    pc \in {"read", "read_raised"} =>
        IF RecordNames = << >> THEN pc = "read_raised" /\ exc = "MissingTag"
        ELSE IF RecordNames[1].text = None THEN pc = "read_raised" /\ exc = "MissingValue"
        ELSE /\ pc = "read"
             /\ HasAttr(docs, "name")
             /\ docs["name"] = Val(RecordNames[1].text)

\* C3: write_class raises nothing for a document read successfully that has
\* its name, its descriptions and its location.
C3_RenderingNeverRaises ==
    (/\ pc \in {"written", "write_raised"}
     /\ \A a \in {"name", "brief", "detailed", "location"} : HasAttr(docs, a))
        => pc = "written" /\ exc = NoExc

\* The display names in ascending order, the empty one first.
DisplayNames ==
    << << >>,
       <<"P", "u", "b", "l", "i", "c", " ", "M", "e", "m", "b", "e", "r", " ",
         "F", "u", "n", "c", "t", "i", "o", "n", "s">>,
       <<"S", "t", "a", "t", "i", "c", " ", "P", "u", "b", "l", "i", "c", " ",
         "A", "t", "t", "r", "i", "b", "u", "t", "e", "s">>,
       <<"S", "t", "a", "t", "i", "c", " ", "P", "u", "b", "l", "i", "c", " ",
         "M", "e", "m", "b", "e", "r", " ", "F", "u", "n", "c", "t", "i", "o", "n", "s">> >>

\* The place in DisplayNames of the title of a member group of this kind.
DisplayRank(kind) ==
    CASE kind = "public-func" -> 2
      [] kind = "public-static-attrib" -> 3
      [] kind = "public-static-func" -> 4
      [] OTHER -> 1

\* The member groups of the record read, in the order of the record.
RecordSections ==
    IF RecordRoot = None THEN << >>
    ELSE SelectSeq(Val(RecordRoot).children, LAMBDA c : c.tag = "sectiondef")

\* n copies of x
Repeat(x, n) == [i \in 1..n |-> x]

\* For each display name in ascending order, one item per member group of the
\* record that has the name and satisfies Counted.
Ascending(Counted(_), Item(_)) ==
    LET copies(r) ==
            Repeat(Item(DisplayNames[r]),
                   Cardinality({i \in DOMAIN RecordSections :
                                   /\ DisplayRank(RecordSections[i].attrib["kind"]) = r
                                   /\ Counted(RecordSections[i])}))
    IN  copies(1) \o copies(2) \o copies(3) \o copies(4)

HasMembers(sectiondef) ==
    \E k \in DOMAIN sectiondef.children :
        sectiondef.children[k].attrib["kind"] \in {"function", "variable"}

SectionHeading(name) == "## " \o Str(name) \o "\n\n"

\* The level-2 headings of member groups in a file, in the order written.
SectionHeadingsIn(file) ==
    SelectSeq(file, LAMBDA line : \E r \in DOMAIN DisplayNames :
                                      line = SectionHeading(DisplayNames[r]))

IsPrefix(a, b) == Len(a) <= Len(b) /\ SubSeq(b, 1, Len(a)) = a

\* C5: The sections of a document read are the member groups of the record in
\* ascending order of display name, the empty name first; the section headings
\* of the file written are those of the groups with members in that order, all
\* of them when write_class returns and the first of them when it raises.
C5_SectionsAscendingByDisplayName ==
    /\ pc \in {"read", "written", "write_raised"} =>
          [i \in DOMAIN docs["sections"] |-> docs["sections"][i].name]
              = Ascending(LAMBDA sd : TRUE, LAMBDA name : name)
    /\ pc \in {"written", "write_raised"} =>
          \A f \in DOMAIN disk :
              LET emitted == SectionHeadingsIn(disk[f])
                  ordered == Ascending(HasMembers, SectionHeading)
              IN  IF pc = "written" THEN emitted = ordered ELSE IsPrefix(emitted, ordered)

\* C5 witness: a file written for a record with three member groups, each
\* with a member, that the record holds in descending order of display name.
C5_Witness ==
    /\ pc = "written"
    /\ Len(RecordSections) = 3
    /\ \A i \in 1..2 : DisplayRank(RecordSections[i].attrib["kind"])
                          > DisplayRank(RecordSections[i + 1].attrib["kind"])
    /\ \A i \in 1..3 : HasMembers(RecordSections[i])
    /\ \E f \in DOMAIN disk : Len(SectionHeadingsIn(disk[f])) = 3

\* ------------------------------------------ properties of the brief table

\* The rows of the table in the stream: what follows the heading, the header
\* row and the alignment row, up to the blank line that closes the table.
DataRows == SubSeq(stream, 4, Len(stream) - 1)

\* The places in the members where a name occurs first.
FirstOccurrences(members) ==
    {i \in DOMAIN members : \A j \in 1..(i - 1) : members[j].name # members[i].name}

\* The k-th smallest element of a set of numbers.
Nth(S, k) == CHOOSE i \in S : Cardinality({j \in S : j < i}) = k - 1

\* The brief text of the last member of that name that has one, else empty.
LastBrief(members, name) ==
    LET with == {i \in DOMAIN members : members[i].name = name /\ members[i].brief # << >>}
    IN  IF with = {} THEN << >>
        ELSE members[CHOOSE i \in with : \A j \in with : j <= i].brief

FunctionRow(members, i) ==
    "|" \o BackTick \o Str(members[i].name) \o BackTick \o "|"
        \o Str(LastBrief(members, members[i].name)) \o "|\n"

VariableRow(member) ==
    "|" \o BackTick \o Str(member.type) \o " " \o Str(member.name) \o " "
        \o Str(member.value) \o BackTick \o "|" \o Str(member.brief) \o "|\n"

\* C4 as stated: the brief table of a section has one row per distinct member
\* name, in the order the names occur first, and the row of a function name
\* shows the last non-empty brief text of the members of that name.
C4_OneRowPerDistinctName ==
    (pc = "written" /\ docs.members # << >>) =>
        LET first == FirstOccurrences(docs.members)
        IN  /\ Len(DataRows) = Cardinality(first)
            /\ docs.members[1].cls = "Function" =>
                  \A k \in 1..Cardinality(first) :
                      DataRows[k] = FunctionRow(docs.members, Nth(first, k))

\* C4 amended: the brief table of a section whose first member is a Function
\* has one row per distinct non-empty member name, in the order the names occur
\* first, showing the last non-empty brief text of the members of that name;
\* the brief table of a section of Variables has one row per member, in the
\* order of the members, showing the brief text of that member.
C4_OneRowPerDistinctFunctionName ==
    (pc = "written" /\ docs.members # << >>) =>
        LET named == {i \in FirstOccurrences(docs.members) : docs.members[i].name # << >>}
        IN  IF docs.members[1].cls = "Function"
            THEN DataRows = [k \in 1..Cardinality(named) |->
                                FunctionRow(docs.members, Nth(named, k))]
            ELSE DataRows = [k \in DOMAIN docs.members |-> VariableRow(docs.members[k])]

\* C4 witness: the table written for functions named f, f, g where the first
\* f has a brief text and the second has none shows the first one's text.
C4_Witness ==
    /\ pc = "written"
    /\ Len(docs.members) = 3
    /\ \A i \in 1..3 : docs.members[i].cls = "Function"
    /\ docs.members[1].name = <<"f">> /\ docs.members[1].brief = <<"A">>
    /\ docs.members[2].name = <<"f">> /\ docs.members[2].brief = << >>
    /\ docs.members[3].name = <<"g">>
    /\ Len(DataRows) = 2
    /\ DataRows[1] = "|" \o BackTick \o "f" \o BackTick \o "|A|\n"

\* ------------------------------------------------- writing paragraphs

\* The longest paragraph text and the number of times it is written again.
MaxLen == 6
MaxWrites == 2

SentenceEnds == {".", "!", "?"}
UpperCaseLetters == {UpperCase[i] : i \in DOMAIN UpperCase}

\* re.sub(r"([\.!?]) ([A-Z])", r"\1\n\2", text) with count=1: the first match.
RECURSIVE ReflowFirstOnly(_, _)
ReflowFirstOnly(text, i) ==
    IF i > Len(text) THEN << >>
    ELSE IF /\ i + 2 <= Len(text)
            /\ text[i] \in SentenceEnds
            /\ text[i + 1] = " "
            /\ text[i + 2] \in UpperCaseLetters
         THEN <<text[i], "\n">> \o SubSeq(text, i + 2, Len(text))
         ELSE <<text[i]>> \o ReflowFirstOnly(text, i + 1)

\* re.sub(r"([\.!?]) ([A-Z])", r"\1\n\2", text) from position i on: the
\* matches from the left, the search going on behind each match.
RECURSIVE ReflowFrom(_, _)
ReflowFrom(text, i) ==
    IF i > Len(text) THEN << >>
    ELSE IF /\ i + 2 <= Len(text)
            /\ text[i] \in SentenceEnds
            /\ text[i + 1] = " "
            /\ text[i + 2] \in UpperCaseLetters
         THEN <<text[i], "\n", text[i + 2]>> \o ReflowFrom(text, i + 3)
         ELSE <<text[i]>> \o ReflowFrom(text, i + 1)

\* Writer.write_paragraph(text) with a file open: the text written, or none.
write_paragraph(text) ==
    IF text = << >> THEN << >> ELSE <<ReflowFrom(text, 1) \o <<"\n">> >>

\* The paragraph texts written.
ParagraphChars == {".", "?", " ", "A", "b"}
Paragraphs == SeqsUpTo(ParagraphChars, MaxLen)

InitParagraph ==
    /\ pc = "input"
    /\ outputRootKind = "dir"
    /\ XML_FILES = << >>
    /\ idx = 0
    /\ writer = None
    /\ opened = << >>
    /\ disk = << >>
    /\ parsed = << >>
    /\ log = << >>
    /\ exc = NoExc
    /\ xml \in Paragraphs
    /\ docs = None
    /\ stream = << >>

\* writer.write_paragraph(text)
WriteParagraph ==
    /\ pc = "input"
    /\ stream' = write_paragraph(xml)
    /\ pc' = "reflowed"
    /\ UNCHANGED <<outputRootKind, XML_FILES, idx, writer, opened, disk, parsed, log, exc,
                   xml, docs>>

\* writer.write_paragraph(text) for the text of the paragraph written last,
\* which is what was written without the line end that closes it.
WriteParagraphAgain ==
    /\ pc = "reflowed"
    /\ idx < MaxWrites
    /\ stream # << >>
    /\ LET last == stream[Len(stream)]
       IN  stream' = stream \o write_paragraph(SubSeq(last, 1, Len(last) - 1))
    /\ idx' = idx + 1
    /\ UNCHANGED <<pc, outputRootKind, XML_FILES, writer, opened, disk, parsed, log, exc,
                   xml, docs>>

NextParagraph == WriteParagraph \/ WriteParagraphAgain

SpecParagraph == InitParagraph /\ [][NextParagraph]_vars

\* C11: Writing again the text of a paragraph that was written writes the
\* same text: the reflow changes nothing in a text it has produced.
C11_ReflowIdempotent ==
    pc = "reflowed" => \A k \in DOMAIN stream : stream[k] = stream[1]

\* C11 witness: a text of two sentence breaks was written, reflowed at both,
\* and written again.
C11_Witness ==
    /\ pc = "reflowed"
    /\ Len(stream) >= 2
    /\ xml = <<".", " ", "A", "?", " ", "A">>
    /\ stream[1] = <<".", "\n", "A", "?", "\n", "A", "\n">>

\* --------------------------------- properties of reading a member group

\* The text of the first field of that name in a member record, else empty.
FieldText(memberdef, tag) ==
    LET at == {i \in DOMAIN memberdef.children : memberdef.children[i].tag = tag}
    IN  IF at = {} THEN << >>
        ELSE Val(memberdef.children[CHOOSE i \in at : \A j \in at : i <= j].text)

\* The member records of the group read that are functions or variables.
MemberRecords ==
    SelectSeq(xml.children, LAMBDA c : c.attrib["kind"] \in {"function", "variable"})

SkipWarning(kind) == LogRecord("WARNING", "Skipping <%s kind=\"%s\"", <<"memberdef", kind>>)

\* C12: The members of a Section read are the function and variable records
\* of the group, one member each, in the order of the group, a Function for a
\* function and a Variable for a variable; for every record of another kind
\* the warning that it is skipped is logged.
C12_MembersInDocumentOrder ==
    pc \in {"read", "written", "write_raised"} =>
        /\ Len(docs.members) = Len(MemberRecords)
        /\ \A i \in DOMAIN MemberRecords :
              /\ docs.members[i].cls =
                    (IF MemberRecords[i].attrib["kind"] = "function"
                     THEN "Function" ELSE "Variable")
              /\ docs.members[i].name = FieldText(MemberRecords[i], "name")
              /\ docs.members[i].brief = FieldText(MemberRecords[i], "briefdescription")
        /\ \A kind \in {xml.children[i].attrib["kind"] : i \in DOMAIN xml.children}
                        \ {"function", "variable"} :
              Cardinality({k \in DOMAIN log : log[k] = SkipWarning(kind)})
                  = Cardinality({i \in DOMAIN xml.children :
                                    xml.children[i].attrib["kind"] = kind})

\* C12 witness: a group of two functions of one name and brief text with a
\* typedef between them was read into two members.
C12_Witness ==
    /\ pc = "read"
    /\ Len(xml.children) = 3
    /\ xml.children[1] = xml.children[3]
    /\ xml.children[1].attrib["kind"] = "function"
    /\ xml.children[2].attrib["kind"] = "typedef"
    /\ Len(docs.members) = 2
    /\ docs.members[1] = docs.members[2]
    /\ docs.members[1].name = <<"f">>

\* ------------------------------- properties of collecting member groups

\* The number of member groups anywhere under these elements.
RECURSIVE CountSectionDefs(_)
CountSectionDefs(children) ==
    IF children = << >> THEN 0
    ELSE (IF Head(children).tag = "sectiondef" THEN 1 ELSE 0)
             + CountSectionDefs(Head(children).children)
             + CountSectionDefs(Tail(children))

\* The children of the root that hold a member group and are none.
RecordWrappers ==
    IF RecordRoot = None THEN << >>
    ELSE SelectSeq(Val(RecordRoot).children,
                   LAMBDA c : c.tag # "sectiondef" /\ CountSectionDefs(c.children) > 0)

\* C13 as stated: a document read has one Section for every member group
\* anywhere under the root container of the record.
C13_EveryMemberGroupCollected ==
    pc \in {"read", "written", "write_raised"} =>
        Len(docs["sections"]) = CountSectionDefs(Val(RecordRoot).children)

\* C13 amended: a document read has one Section for every member group that
\* is a child of the root container, read from that group, and none for a
\* member group inside another child of the root, which is skipped as a whole
\* with a warning when the reader does not know the element.
C13_OnlyChildGroupsCollected ==
    pc \in {"read", "written", "write_raised"} =>
        /\ Len(docs["sections"]) = Len(RecordSections)
        /\ \A i \in DOMAIN docs["sections"] :
              Cardinality({j \in DOMAIN docs["sections"] :
                              docs["sections"][j] = docs["sections"][i]})
                  = Cardinality({j \in DOMAIN RecordSections :
                                    Section(RecordSections[j], << >>).obj
                                        = docs["sections"][i]})
        /\ \A i \in DOMAIN RecordWrappers :
              \E k \in DOMAIN log :
                  log[k] = LogRecord("WARNING", "Skipping <%s> in %s",
                                     <<RecordWrappers[i].tag, Path_classA>>)

\* C13 witness: a record with a member group of the root and one inside
\* another element was read into a document of one Section.
C13_Witness ==
    /\ pc = "read"
    /\ Len(RecordWrappers) = 1
    /\ Len(RecordSections) = 1
    /\ RecordSections[1].attrib["kind"] = "public-static-attrib"
    /\ RecordWrappers[1].children[1].attrib["kind"] = "public-func"
    /\ Len(docs["sections"]) = 1
    /\ docs["sections"][1].name = DisplayNames[3]

\* ------------------------------------ properties of the header location

\* The location fields of the record read.
RecordLocations ==
    IF RecordRoot = None THEN << >>
    ELSE SelectSeq(Val(RecordRoot).children, LAMBDA c : c.tag = "location")

\* C14: The location of a document read is the path of the record's location
\* without the header search path at its start, if it starts with it, and the
\* path as it is otherwise: occurrences behind the start stay in place.
C14_LeadingSearchPathRemoved ==
    (pc \in {"read", "written", "write_raised"} /\ RecordLocations # << >>) =>
        LET file == RecordLocations[1].attrib["file"]
            n == Len(HeaderSearchPath)
        IN  docs["location"] =
                (IF Len(file) >= n /\ SubSeq(file, 1, n) = HeaderSearchPath
                 THEN SubSeq(file, n + 1, Len(file))
                 ELSE file)

\* ------------------------------------------------------- writing a table

\* The most columns of a table and the most rows written to it.
MaxColumns == 2
MaxRows == 2

\* Alignment.value of a member of Table.Alignment
AlignmentValue(member) ==
    CASE member = "LEFT" -> Alignment_LEFT
      [] member = "CENTER" -> Alignment_CENTER
      [] member = "RIGHT" -> Alignment_RIGHT

\* The columns of the tables written: <<heading, alignment>> pairs.
TableColumns ==
    UNION {[1..n -> {<<h, a>> : h \in {"H", "K"}, a \in {"LEFT", "CENTER", "RIGHT"}}] :
              n \in 1..MaxColumns}

InitTable ==
    /\ pc = "input"
    /\ outputRootKind = "dir"
    /\ XML_FILES = << >>
    /\ idx = 0
    /\ writer = None
    /\ opened = << >>
    /\ disk = << >>
    /\ parsed = << >>
    /\ log = << >>
    /\ exc = NoExc
    /\ xml \in TableColumns
    /\ docs = None
    /\ stream = << >>

\* with markdown.Table(file, columns) as table:
TableEnter ==
    /\ pc = "input"
    /\ stream' = Table__init__(stream, [i \in DOMAIN xml |-> <<xml[i][1], AlignmentValue(xml[i][2])>>])
    /\ pc' = "table"
    /\ UNCHANGED <<outputRootKind, XML_FILES, idx, writer, opened, disk, parsed, log, exc,
                   xml, docs>>

\* table.write_row(columns) in the body of the with
TableWriteRow ==
    /\ pc = "table"
    /\ idx < MaxRows
    /\ \E columns \in [DOMAIN xml -> {"a", ""}] :
           stream' = Table_write_row(stream, columns)
    /\ idx' = idx + 1
    /\ UNCHANGED <<pc, outputRootKind, XML_FILES, writer, opened, disk, parsed, log, exc,
                   xml, docs>>

\* The body of the with ends or raises, and Table.__exit__ runs.
TableLeave ==
    /\ pc = "table"
    /\ \E outcome \in BodyOutcomes : exc' = outcome
    /\ stream' = Table__exit__(stream)
    /\ pc' = "closed"
    /\ UNCHANGED <<outputRootKind, XML_FILES, idx, writer, opened, disk, parsed, log,
                   xml, docs>>

NextTable == TableEnter \/ TableWriteRow \/ TableLeave

SpecTable == InitTable /\ [][NextTable]_vars

\* The cell of the alignment row for a column, as Markdown has it.
AlignmentCell(member) ==
    CASE member = "LEFT" -> ":--"
      [] member = "CENTER" -> ":-:"
      [] member = "RIGHT" -> "--:"

\* "|" then each cell followed by "|", then the line end.
RECURSIVE RowOf(_)
RowOf(cells) ==
    IF cells = << >> THEN "\n" ELSE Head(cells) \o "|" \o RowOf(Tail(cells))

\* C15: A table starts with the row of its headings and the row of its
\* alignments, ":--" for left, ":-:" for center and "--:" for right, the rows
\* written follow, and once the table is closed, by the end of the body or by
\* an error, a blank line is the last line written.
C15_TableLayout ==
    pc \in {"table", "closed"} =>
        /\ Len(stream) = 2 + idx + (IF pc = "closed" THEN 1 ELSE 0)
        /\ stream[1] = "|" \o RowOf([i \in DOMAIN xml |-> xml[i][1]])
        /\ stream[2] = "|" \o RowOf([i \in DOMAIN xml |-> AlignmentCell(xml[i][2])])
        /\ pc = "closed" => stream[Len(stream)] = "\n"

====
